---- MODULE Spec2Model ----
(***************************************************************************)
(* vdl2-live-table: the UDP -> enrichment -> daily log -> statistics ->    *)
(* WebSocket pipeline of server.js, and the browser client's reconnect     *)
(* protocol (connectWS).                                                   *)
(*                                                                         *)
(* Time is counted in ticks of 30 seconds (the period of the rotation      *)
(* timer) since the epoch; tz is the offset of local time from UTC.        *)
(* Strings that the code inspects character by character (addresses) are   *)
(* sequences of one-character strings.  A JavaScript object is a function  *)
(* from its field names to its values; {} is the function with the empty   *)
(* domain.                                                                 *)
(***************************************************************************)
EXTENDS Integers, Sequences, FiniteSets, TLC

VARIABLES
    \* ---- server.js: process and clock
    alive,          \* the node process is running (no uncaught exception yet)
    tz,             \* offset of the local time zone from UTC, ticks
    now,            \* wall clock (Date.now()), ticks
    \* ---- server.js: rotating log writer
    currentDate,    \* let currentDate
    SAVE_FILE,      \* let SAVE_FILE (the day whose file it names)
    files,          \* LOG_DIR: day |-> lines of received-<day>.jsonl
    latest,         \* target of received-latest.jsonl, or NoLink
    \* ---- server.js: unknown ICAO logging
    unknownCache,   \* const unknownCache = new Set()
    ledger,         \* UNKNOWN_DIR: day |-> lines of unknown_hex_<day>.log
    lookupSeen,     \* const lookupSeen = new Set()
    \* ---- server.js: events aggregation
    totalPackets, uniqueHex, uniqueFlights, topOwners, topModels, timeline,
    \* ---- server.js: WebSocket server
    clients,        \* wss.clients, in insertion order
    readyState,     \* subscriber |-> readyState of its server-side socket
    broken,         \* subscriber |-> its socket is dead but not yet noticed
    delivered,      \* subscriber |-> payloads it has received
    \* ---- history of the ingestion loop
    received,       \* number of datagrams handled so far
    lookups,        \* keys handed to stmtLookup.get, in order, with the day
                    \* and whether lookup and ledger were free of faults
    lostKeys,       \* keys whose ledger line failed to be written
    last,           \* what the handler did with the latest datagram
    rot,            \* what the latest rotation did, and how many there were
    evicted,        \* number of minute buckets dropped from the timeline so far
    heard,          \* subscriber |-> messages published while it was connected
    \* ---- app.js: browser client
    ws,             \* state of the client's current WebSocket
    reconnectDelay, \* let reconnectDelay
    reconnectTimer, \* delay of the pending setTimeout(connectWS), or NoTimer
    tableData,      \* number of rows of tableData
    packetCount,    \* let packetCount
    attempts,       \* closes since the last successful open (saturating)
    lastEvent,      \* the latest client event
    lastDelay,      \* the delay handed to the latest setTimeout
    \* ---- HTTP and the inputs of pure functions
    advances,       \* number of clock steps so far
    response,       \* the latest HTTP response of the statistics API
    rawAddr,        \* an address value handed to normalizeHex
    hexKey,         \* what normalizeHex returned for it
    \* ---- controller.js: supervisor of the decoder process
    proc,           \* let proc: the child the supervisor holds, or NoProc
    children,       \* the decoder processes that are spawned and not yet exited
    spawned,        \* number of processes spawned so far (the newest pid)
    signalled,      \* the live children that were sent SIGTERM
    reply,          \* the latest HTTP reply of the supervisor
    lastExit,       \* the latest exit event: the child, and the handle before it
    \* ---- app.js: the client's sockets and timers, one by one
    sockets,        \* socket |-> its state, in order of creation
    current,        \* the socket the variable ws refers to
    timers,         \* the pending timeouts set for connectWS
    timerHandle,    \* let reconnectTimer: the id of the latest timeout
    timerCount      \* number of timeouts set so far

serverVars == <<alive, tz, now, currentDate, SAVE_FILE, files, latest, unknownCache,
                ledger, lookupSeen, totalPackets, uniqueHex, uniqueFlights,
                topOwners, topModels, timeline, clients, readyState, broken,
                delivered, received, lookups, lostKeys, last, rot, evicted, heard>>
clientVars == <<ws, reconnectDelay, reconnectTimer, tableData, packetCount,
                attempts, lastEvent, lastDelay>>
ctlVars == <<proc, children, spawned, signalled, reply, lastExit>>
connVars == <<sockets, current, timers, timerHandle, timerCount>>
auxVars == <<advances, response, rawAddr, hexKey, ctlVars, connVars>>
vars == <<serverVars, clientVars, auxVars>>

(***************************************************************************)
(* Bounds of the model                                                     *)
(***************************************************************************)
MaxDatagrams == 2
MaxDay == 1
MaxFan == 2
MaxRx == 3
MaxAttempts == 6
MaxLen == 7
RotStartDay == 8
MaxRotDays == 1
MaxRotMsgs == 2
FleetSize == 13
MaxTopMsgs == 12
MaxQueryMsgs == 2
MaxQuerySteps == 2
WarmMinutes == 1436
MaxStatMsgs == 1442
MaxSpawn == 3
MaxSockets == 12

(***************************************************************************)
(* Program constants                                                       *)
(***************************************************************************)
KEEP_DAYS == 7
TicksPerDay == 2880
TicksPerMinute == 2
TimerPeriod == 1
TimelineMax == 1440
TimelineWindow == 120
TopN == 10
HexWidth == 6
InitialDelay == 1000
MaxDelay == 10000
TableMax == 500
OPEN == 1
CLOSING == 2
CLOSED == 3

NoLink == -1
NoTimer == 0
Subs == {1, 2}

(***************************************************************************)
(* Strings                                                                 *)
(***************************************************************************)
Min(a, b) == IF a < b THEN a ELSE b

Digits == <<"0", "1", "2", "3", "4", "5", "6", "7", "8", "9">>
LowerHex == {"0", "1", "2", "3", "4", "5", "6", "7", "8", "9",
             "a", "b", "c", "d", "e", "f"}
UpperHex == {"A", "B", "C", "D", "E", "F"}
Whitespace == {" "}

toLowerCase(c) ==
    CASE c = "A" -> "a" [] c = "B" -> "b" [] c = "C" -> "c"
      [] c = "D" -> "d" [] c = "E" -> "e" [] c = "F" -> "f"
      [] OTHER -> c

RECURSIVE numToString(_)
numToString(n) ==
    IF n < 10 THEN <<Digits[n + 1]>>
    ELSE numToString(n \div 10) \o <<Digits[(n % 10) + 1]>>

RECURSIVE trimStart(_)
trimStart(s) ==
    IF s # <<>> /\ Head(s) \in Whitespace THEN trimStart(Tail(s)) ELSE s

RECURSIVE trimEnd(_)
trimEnd(s) ==
    IF s # <<>> /\ s[Len(s)] \in Whitespace
    THEN trimEnd(SubSeq(s, 1, Len(s) - 1)) ELSE s

trim(s) == trimEnd(trimStart(s))

IsHexChar(c) == c \in LowerHex \cup UpperHex

\* padding on the right
RECURSIVE padEnd(_, _, _)
padEnd(s, n, c) == IF Len(s) >= n THEN s ELSE padEnd(s \o <<c>>, n, c)

RECURSIVE padStart(_, _, _)
padStart(s, n, c) == IF Len(s) >= n THEN s ELSE padStart(<<c>> \o s, n, c)

(***************************************************************************)
(* A raw address as it appears in the parsed JSON: absent, a string or a   *)
(* number.                                                                 *)
(***************************************************************************)
Absent == [kind |-> "absent", s |-> <<>>, n |-> 0]
Str(s) == [kind |-> "str", s |-> s, n |-> 0]
Num(n) == [kind |-> "num", s |-> <<>>, n |-> n]

\* (raw ?? "").toString()
toString(raw) ==
    CASE raw.kind = "absent" -> <<>>
      [] raw.kind = "str" -> raw.s
      [] raw.kind = "num" -> numToString(raw.n)

\* JavaScript truthiness of an address value
Truthy(raw) ==
    CASE raw.kind = "absent" -> FALSE
      [] raw.kind = "str" -> raw.s # <<>>
      [] raw.kind = "num" -> raw.n # 0

normalizeHex(raw) ==
    LET t == trim(toString(raw))
        h == SelectSeq(t, IsHexChar)
        p == padStart(h, HexWidth, "0")
    IN  [i \in 1..Len(p) |-> toLowerCase(p[i])]

ZeroKey == <<"0", "0", "0", "0", "0", "0">>

(***************************************************************************)
(* Dates and paths                                                         *)
(***************************************************************************)
\* local calendar day of the instant t
dateStamp(t) == (t + tz) \div TicksPerDay
logPathFor(d) == d
\* new Date().toISOString().slice(0, 16): the UTC minute
minuteKey(t) == t \div TicksPerMinute

(***************************************************************************)
(* The state of the server process as one record, so that the steps of a   *)
(* handler compose in the order the code runs them.                        *)
(***************************************************************************)
Cur ==
    [alive |-> alive, now |-> now, currentDate |-> currentDate,
     SAVE_FILE |-> SAVE_FILE, files |-> files, latest |-> latest,
     unknownCache |-> unknownCache, ledger |-> ledger,
     lookupSeen |-> lookupSeen, totalPackets |-> totalPackets,
     uniqueHex |-> uniqueHex, uniqueFlights |-> uniqueFlights,
     topOwners |-> topOwners, topModels |-> topModels, timeline |-> timeline,
     delivered |-> delivered, lookups |-> lookups, lostKeys |-> lostKeys,
     last |-> last, rot |-> rot, evicted |-> evicted]

Install(st) ==
    /\ alive' = st.alive
    /\ currentDate' = st.currentDate
    /\ SAVE_FILE' = st.SAVE_FILE
    /\ files' = st.files
    /\ latest' = st.latest
    /\ unknownCache' = st.unknownCache
    /\ ledger' = st.ledger
    /\ lookupSeen' = st.lookupSeen
    /\ totalPackets' = st.totalPackets
    /\ uniqueHex' = st.uniqueHex
    /\ uniqueFlights' = st.uniqueFlights
    /\ topOwners' = st.topOwners
    /\ topModels' = st.topModels
    /\ timeline' = st.timeline
    /\ delivered' = st.delivered
    /\ lookups' = st.lookups
    /\ lostKeys' = st.lostKeys
    /\ last' = st.last
    /\ rot' = st.rot
    /\ evicted' = st.evicted

\* The file system call that fails during one run of a handler (at most one).
Faults == {"none", "lookup", "ledger", "append", "create", "unlink",
           "symlink", "readdir"}

\* fs.appendFileSync(path, line): creates the file when it does not exist.
appendFileSync(fs, path, lines) ==
    IF path \in DOMAIN fs
    THEN [fs EXCEPT ![path] = @ \o lines]
    ELSE [p \in DOMAIN fs \cup {path} |-> IF p = path THEN lines ELSE fs[p]]

(***************************************************************************)
(* Daily rotation for JSONL                                                *)
(***************************************************************************)
\* try { try { unlinkSync(LATEST_LINK) } catch {} symlinkSync(...) } catch {}
updateLatestSymlink(st, fault) ==
    CASE fault = "unlink" /\ st.latest # NoLink -> st    \* symlink: EEXIST
      [] fault = "symlink" -> [st EXCEPT !.latest = NoLink]
      [] OTHER -> [st EXCEPT !.latest = st.SAVE_FILE]

\* new Date(m[1] + "T00:00:00Z").getTime(): midnight UTC of the file's date
fileTime(d) == d * TicksPerDay

\* "readdir": readdirSync, or the unlinkSync of the first old file, throws
pruneOldLogs(st, fault) ==
    LET cutoff == st.now - KEEP_DAYS * TicksPerDay
        keep == {d \in DOMAIN st.files : ~(fileTime(d) < cutoff)}
    IN  IF fault = "readdir" THEN st
        ELSE [st EXCEPT !.files = [d \in keep |-> st.files[d]]]

\* a rotation that moves the day stamp but not the path
rotateIfNeededStalePath(st, fault) ==
    IF dateStamp(st.now) # st.currentDate
    THEN [st EXCEPT !.currentDate = dateStamp(st.now), !.rot.n = @ + 1]
    ELSE st

\* a rotation without the test of the day stamp
rotateAlways(st, fault) ==
    LET today == dateStamp(st.now)
        s1 == [st EXCEPT !.currentDate = today, !.SAVE_FILE = logPathFor(today)]
        s2 == [s1 EXCEPT !.files = appendFileSync(s1.files, s1.SAVE_FILE, <<>>)]
        s3 == pruneOldLogs(updateLatestSymlink(s2, fault), fault)
    IN  [s3 EXCEPT !.rot.n = @ + 1]

rotateIfNeeded(st, fault) ==
    LET today == dateStamp(st.now)
        s1 == [st EXCEPT !.currentDate = today, !.SAVE_FILE = logPathFor(today)]
        s2 == IF fault = "create" THEN s1
              ELSE [s1 EXCEPT !.files = appendFileSync(s1.files, s1.SAVE_FILE, <<>>)]
        s3 == pruneOldLogs(updateLatestSymlink(s2, fault), fault)
    IN  IF today # st.currentDate
        THEN [s3 EXCEPT !.rot = [n |-> st.rot.n + 1, at |-> st.now,
                                 had |-> DOMAIN s2.files,
                                 kept |-> DOMAIN s3.files,
                                 created |-> fault # "create",
                                 linked |-> fault \notin {"unlink", "symlink"},
                                 pruned |-> fault # "readdir"]]
        ELSE st

(***************************************************************************)
(* Unknown ICAO logging                                                    *)
(***************************************************************************)
\* miss logging without the per-runtime cache test
logUnknownHexUncached(st, hex, fault) ==
    LET today == dateStamp(st.now)
        line == [time |-> st.now, hex |-> hex]
        s1 == [st EXCEPT !.unknownCache = @ \cup {hex}]
    IN  IF hex = <<>> THEN st
        ELSE IF fault = "ledger" THEN [s1 EXCEPT !.lostKeys = @ \cup {hex}]
        ELSE [s1 EXCEPT !.ledger = appendFileSync(@, today, <<line>>)]

logUnknownHex(st, hex, fault) ==
    LET today == dateStamp(st.now)
        line == [time |-> st.now, hex |-> hex]
        s1 == [st EXCEPT !.unknownCache = @ \cup {hex}]
    IN  IF hex = <<>> THEN st
        ELSE IF hex \in st.unknownCache THEN st
        ELSE IF fault = "ledger" THEN [s1 EXCEPT !.lostKeys = @ \cup {hex}]
        ELSE [s1 EXCEPT !.ledger = appendFileSync(@, today, <<line>>)]

(***************************************************************************)
(* SQLite reference table (read only).  "" stands for NULL or empty.       *)
(***************************************************************************)
KeyA == <<"a", "1", "2", "3", "4", "5">>
KeyC == <<"0", "0", "0", "0", "c", "3">>

\* A fleet of FleetSize further aircraft, 0000f1, 0000f2, ...: each has an
\* owner of its own, except the third and the seventh, which have none; all
\* are of one type.
FleetDigits == <<"1", "2", "3", "4", "5", "6", "7", "8", "9", "a", "b", "c",
                 "d", "e">>
FleetOwners == <<"Op01", "Op02", "", "Op04", "Op05", "Op06", "", "Op08",
                 "Op09", "Op10", "Op11", "Op12", "Op13", "Op14">>
FleetKey(i) == <<"0", "0", "0", "0", "f", FleetDigits[i]>>
Fleet == {FleetKey(i) : i \in 1..FleetSize}
FleetIndex(k) == CHOOSE i \in 1..FleetSize : FleetKey(i) = k

aircraft ==
    [k \in {KeyA, KeyC} \cup Fleet |->
        IF k = KeyA
        THEN [icao |-> k, reg |-> "N123", icaotype |-> "B738", year |-> "2010",
              manufacturer |-> "Boeing", model |-> "737-800",
              ownop |-> "Acme Air", faa_pia |-> 0, faa_ladd |-> 1,
              short_type |-> "L2J", mil |-> 0]
        ELSE IF k = KeyC
        THEN [icao |-> k, reg |-> "", icaotype |-> "", year |-> "",
              manufacturer |-> "", model |-> "", ownop |-> "", faa_pia |-> 0,
              faa_ladd |-> 0, short_type |-> "", mil |-> 1]
        ELSE [icao |-> k, reg |-> "", icaotype |-> "A320", year |-> "",
              manufacturer |-> "", model |-> "",
              ownop |-> FleetOwners[FleetIndex(k)], faa_pia |-> 0,
              faa_ladd |-> 0, short_type |-> "", mil |-> 0]]

EmptyObject == [f \in {} |-> ""]

\* the enrichment object built from a row: row.x || "" and !!row.y
enrichedFrom(row) ==
    [reg |-> row.reg, icaotype |-> row.icaotype, year |-> row.year,
     manufacturer |-> row.manufacturer, model |-> row.model,
     ownop |-> row.ownop, short_type |-> row.short_type,
     mil |-> row.mil # 0, faa_pia |-> row.faa_pia # 0,
     faa_ladd |-> row.faa_ladd # 0]

(***************************************************************************)
(* Events aggregation                                                      *)
(***************************************************************************)
\* A Map is the sequence of its entries in insertion order.
\* map.set(key, 1): the entry is set without reading its old count
setOne(map, key) ==
    IF \E i \in 1..Len(map) : map[i].key = key
    THEN [i \in 1..Len(map) |->
             IF map[i].key = key THEN [map[i] EXCEPT !.count = 1] ELSE map[i]]
    ELSE Append(map, [key |-> key, count |-> 1])

\* map.set(key, (map.get(key) || 0) + 1)
incMap(map, key) ==
    IF \E i \in 1..Len(map) : map[i].key = key
    THEN [i \in 1..Len(map) |->
             IF map[i].key = key THEN [map[i] EXCEPT !.count = @ + 1] ELSE map[i]]
    ELSE Append(map, [key |-> key, count |-> 1])

\* pkt.db?.<field> || "Unknown"
orUnknown(db, field) ==
    IF field \in DOMAIN db /\ db[field] # "" THEN db[field] ELSE "Unknown"

\* Array.prototype.pop: drops the newest entry
pop(a) == SubSeq(a, 1, Len(a) - 1)

\* Array.prototype.shift: drops the oldest entry
shift(a) == Tail(a)

\* the increment left to a later turn of the event loop
countLater(tl) == tl

\* bucket.count++, in the same synchronous run that pushed the bucket
countUp(tl) == [tl EXCEPT ![Len(tl)].count = @ + 1]

updateStats(st, pkt) ==
    LET hex == IF Truthy(pkt.addr) THEN normalizeHex(pkt.addr) ELSE <<>>
        flight == pkt.flight
        owner == orUnknown(pkt.db, "ownop")
        model == orUnknown(pkt.db, "icaotype")
        key == minuteKey(st.now)
        n == Len(st.timeline)
        sameBucket == n # 0 /\ st.timeline[n].time = key
        pushed == Append(st.timeline, [time |-> key, count |-> 0])
        shifted == IF Len(pushed) > TimelineMax THEN shift(pushed) ELSE pushed
        tl == IF sameBucket THEN st.timeline ELSE shifted
    IN  [st EXCEPT
            !.totalPackets = @ + 1,
            !.uniqueHex = IF hex # <<>> THEN @ \cup {hex} ELSE @,
            !.uniqueFlights = IF flight # "" THEN @ \cup {flight} ELSE @,
            !.topOwners = incMap(@, owner),
            !.topModels = incMap(@, model),
            !.timeline = countUp(tl),
            !.evicted = IF ~sameBucket /\ Len(pushed) > TimelineMax THEN @ + 1 ELSE @]

\* entries kept in their order
keepOrder(entries) == entries

\* [...map.entries()].sort((a, b) => b[1] - a[1]): stable, by descending count
RECURSIVE sortByCount(_)
sortByCount(entries) ==
    IF entries = <<>> THEN <<>>
    ELSE LET rest == sortByCount(SubSeq(entries, 1, Len(entries) - 1))
             e == entries[Len(entries)]
             before == SelectSeq(rest, LAMBDA x : x.count >= e.count)
             after == SelectSeq(rest, LAMBDA x : x.count < e.count)
         IN  before \o <<e>> \o after

\* array.slice(0, n)
sliceFirst(a, n) == SubSeq(a, 1, Min(n, Len(a)))

\* array.slice(-n)
sliceLast(a, n) == SubSeq(a, Len(a) - Min(n, Len(a)) + 1, Len(a))

\* the body of the reply to GET /api/events/summary
summary(st) ==
    [totalPackets |-> st.totalPackets,
     uniqueAircraft |-> Cardinality(st.uniqueHex),
     uniqueFlights |-> Cardinality(st.uniqueFlights),
     topOwners |-> sliceFirst(sortByCount(st.topOwners), TopN),
     topModels |-> sliceFirst(sortByCount(st.topModels), TopN)]

NoSummary == [totalPackets |-> 0, uniqueAircraft |-> 0, uniqueFlights |-> 0,
              topOwners |-> <<>>, topModels |-> <<>>]

(***************************************************************************)
(* UDP -> Enrich -> Log -> WS                                              *)
(***************************************************************************)
\* A datagram: whether its text parses as JSON, and the fields the handler
\* reads from the parsed object.
AbsentSec == [kind |-> "absent", n |-> 0]
NumSec(n) == [kind |-> "num", n |-> n]
NaNSec == [kind |-> "nan", n |-> 0]       \* e.g. "sec": "x"

Malformed == [ok |-> FALSE, addr |-> Absent, sec |-> AbsentSec, flight |-> ""]
Msg(addr, sec, flight) == [ok |-> TRUE, addr |-> addr, sec |-> sec, flight |-> flight]

\* a parser that accepts every payload
JSONparseLenient(d) == TRUE

JSONparse(d) == d.ok

\* vdl2?.t?.sec is truthy
secTruthy(sec) == sec.kind = "nan" \/ (sec.kind = "num" /\ sec.n # 0)

\* new Date(sec * 1000).toISOString() throws RangeError on an invalid date
toISOStringThrows(sec) == sec.kind = "nan"

timestampIso(sec, t) ==
    IF secTruthy(sec) THEN [from |-> "event", t |-> sec.n]
    ELSE [from |-> "clock", t |-> t]

\* a readiness test that also accepts a socket that is closing
IsReadyLoose(rs) == rs = OPEN \/ rs = CLOSING

IsReady(rs) == rs = OPEN

\* client.send(payload): a dead socket reports its error asynchronously
send(dl, c, brk, payload) ==
    IF brk[c] THEN dl ELSE [dl EXCEPT ![c] = Append(@, payload)]

\* a broadcast loop that a failing send aborts
RECURSIVE BroadcastAbort(_, _, _, _, _)
BroadcastAbort(dl, cl, rs, brk, payload) ==
    IF cl = <<>> THEN dl
    ELSE LET c == Head(cl)
         IN  IF IsReady(rs[c]) /\ brk[c] THEN dl
             ELSE BroadcastAbort(
                      IF IsReady(rs[c]) THEN send(dl, c, brk, payload) ELSE dl,
                      Tail(cl), rs, brk, payload)

\* for (const client of wss.clients) if (client.readyState === 1) client.send(payload)
RECURSIVE Broadcast(_, _, _, _, _)
Broadcast(dl, cl, rs, brk, payload) ==
    IF cl = <<>> THEN dl
    ELSE LET c == Head(cl)
             d1 == IF IsReady(rs[c]) THEN send(dl, c, brk, payload) ELSE dl
         IN  Broadcast(d1, Tail(cl), rs, brk, payload)

Step(st, name) == [st EXCEPT !.last.steps = Append(@, name)]

\* the lookup block of the handler: if (hex) { try { ... } catch { } }
enrich(st, hex, fault) ==
    LET s1 == [st EXCEPT !.lookups =
                  Append(@, [hex |-> hex, day |-> dateStamp(st.now),
                             clean |-> fault \notin {"lookup", "ledger"}])]
        seen == [s1 EXCEPT !.lookupSeen = @ \cup {hex}]
    IN  IF hex = <<>> THEN st
        ELSE IF fault = "lookup" THEN s1
        ELSE IF hex \in DOMAIN aircraft
        THEN [seen EXCEPT !.last.db = enrichedFrom(aircraft[hex])]
        ELSE logUnknownHex(seen, hex, fault)

\* an append whose failure is not caught
appendLogUncaught(st, outObj, fault) ==
    IF fault = "append" THEN [st EXCEPT !.alive = FALSE]
    ELSE [st EXCEPT !.files = appendFileSync(@, st.SAVE_FILE, <<outObj>>)]

\* try { fs.appendFileSync(SAVE_FILE, line) } catch (e) { console.error(...) }
appendLog(st, outObj, fault) ==
    IF fault = "append" THEN st
    ELSE [st EXCEPT !.files = appendFileSync(@, st.SAVE_FILE, <<outObj>>)]

onMessage(st, d, fault, id, cl, rs, brk) ==
    LET s0 == [st EXCEPT !.last = [id |-> id, ok |-> d.ok, parsed |-> FALSE,
                                   steps |-> <<>>, hex |-> <<>>,
                                   db |-> EmptyObject, published |-> FALSE,
                                   members |-> {}, open |-> {}, dead |-> {},
                                   lookupFailed |-> d.ok /\ fault = "lookup",
                                   appendFailed |-> d.ok /\ fault = "append",
                                   dated |-> ~(secTruthy(d.sec) /\
                                               toISOStringThrows(d.sec))]]
        s1 == Step(rotateIfNeeded(s0, fault), "rotate")
        hex == normalizeHex(d.addr)
        s2 == Step([s1 EXCEPT !.last.parsed = TRUE, !.last.hex = hex], "normalize")
        s3 == Step(enrich(s2, hex, fault), "enrich")
        outObj == [id |-> id, addr |-> d.addr, sec |-> d.sec, flight |-> d.flight,
                   db |-> s3.last.db,
                   timestamp_iso |-> timestampIso(d.sec, st.now)]
        s4 == Step(appendLog(s3, outObj, fault), "append")
        s5 == Step(updateStats(s4, outObj), "stats")
        s6 == Step([s5 EXCEPT
                       !.delivered = Broadcast(@, cl, rs, brk, outObj),
                       !.last.published = TRUE,
                       !.last.members = {cl[i] : i \in 1..Len(cl)},
                       !.last.open = {c \in Subs : rs[c] = OPEN},
                       !.last.dead = {c \in Subs : brk[c]}],
                   "publish")
    IN  IF ~JSONparse(d) THEN s1
        ELSE IF secTruthy(d.sec) /\ toISOStringThrows(d.sec)
        THEN [s3 EXCEPT !.alive = FALSE]
        ELSE s6

(***************************************************************************)
(* Server: initial state and actions                                       *)
(***************************************************************************)
NoDatagram == [id |-> 0, ok |-> FALSE, parsed |-> FALSE, steps |-> <<>>,
               hex |-> <<>>, db |-> EmptyObject, published |-> FALSE,
               members |-> {}, open |-> {}, dead |-> {},
               lookupFailed |-> FALSE, appendFailed |-> FALSE, dated |-> TRUE]

NoRotation == [n |-> 0, at |-> 0, had |-> {}, kept |-> {}, created |-> TRUE,
               linked |-> TRUE, pruned |-> TRUE]

NoResponse == [path |-> "none", at |-> 0, served |-> 0, summary |-> NoSummary,
               timeline |-> <<>>]

\* the subscribers that were connected and ready when the latest message
\* was published
Ready(l) == (l.members \cap l.open) \ l.dead

\* proc = null
NoProc == 0

\* no reply yet
NoReply == [route |-> "none", code |-> 0, running |-> FALSE, pid |-> NoProc]

\* no exit event yet
NoExit == [child |-> NoProc, held |-> NoProc]

\* let ws: undefined
NoSocket == 0

ClientIdle ==
    /\ ws = "none"
    /\ reconnectDelay = InitialDelay
    /\ reconnectTimer = NoTimer
    /\ tableData = 0
    /\ packetCount = 0
    /\ attempts = 0
    /\ lastEvent = "none"
    /\ lastDelay = NoTimer

\* controller.js at module load: let proc = null
CtlIdle ==
    /\ proc = NoProc
    /\ children = {}
    /\ spawned = 0
    /\ signalled = {}
    /\ reply = NoReply
    /\ lastExit = NoExit

\* app.js before connectWS() has run: let ws; let reconnectTimer
ConnIdle ==
    /\ sockets = <<>>
    /\ current = NoSocket
    /\ timers = {}
    /\ timerHandle = NoTimer
    /\ timerCount = 0

QueryIdle ==
    /\ advances = 0
    /\ response = NoResponse
    /\ rawAddr = Absent
    /\ hexKey = normalizeHex(Absent)

AuxInit == QueryIdle /\ CtlIdle /\ ConnIdle

\* The server's state when the process has started at instant t over a log
\* directory that holds the files fs and the alias link left by earlier runs.
Booted(t, fs, link) ==
    [alive |-> TRUE, now |-> t, currentDate |-> dateStamp(t),
     SAVE_FILE |-> logPathFor(dateStamp(t)), files |-> fs, latest |-> link,
     unknownCache |-> {}, ledger |-> [d \in {} |-> <<>>], lookupSeen |-> {},
     totalPackets |-> 0, uniqueHex |-> {}, uniqueFlights |-> {},
     topOwners |-> <<>>, topModels |-> <<>>, timeline |-> <<>>,
     delivered |-> [s \in Subs |-> <<>>], lookups |-> <<>>, lostKeys |-> {},
     last |-> NoDatagram, rot |-> NoRotation, evicted |-> 0]

\* the server is in state st
Holds(st) ==
    /\ alive = st.alive
    /\ now = st.now
    /\ currentDate = st.currentDate
    /\ SAVE_FILE = st.SAVE_FILE
    /\ files = st.files
    /\ latest = st.latest
    /\ unknownCache = st.unknownCache
    /\ ledger = st.ledger
    /\ lookupSeen = st.lookupSeen
    /\ totalPackets = st.totalPackets
    /\ uniqueHex = st.uniqueHex
    /\ uniqueFlights = st.uniqueFlights
    /\ topOwners = st.topOwners
    /\ topModels = st.topModels
    /\ timeline = st.timeline
    /\ delivered = st.delivered
    /\ lookups = st.lookups
    /\ lostKeys = st.lostKeys
    /\ last = st.last
    /\ rot = st.rot
    /\ evicted = st.evicted

\* no subscriber is connected
Unconnected ==
    /\ clients = <<>>
    /\ readyState = [s \in Subs |-> CLOSED]
    /\ broken = [s \in Subs |-> FALSE]
    /\ heard = [s \in Subs |-> {}]

\* The process starts in zone z at instant t.
ServerStart(z, t, fs, link) ==
    /\ tz = z
    /\ Holds(Booted(t, fs, link))
    /\ Unconnected
    /\ received = 0

\* a first start, at the epoch, in UTC, over an empty log directory
ServerInit == ServerStart(0, 0, [d \in {} |-> <<>>], NoLink)

Init == ServerInit /\ ClientIdle /\ AuxInit

Datagrams ==
    { Malformed,
      Msg(Absent, AbsentSec, ""),
      Msg(Str(<<"g", "0">>), AbsentSec, ""),
      Msg(Str(<<"A", "1", "2", "3", "4", "5">>), NumSec(1700000000), "F1"),
      Msg(Str(<<" ", "B", "2">>), AbsentSec, ""),
      Msg(Str(<<" ", "B", "2">>), NaNSec, "") }

FanDatagrams ==
    { Malformed,
      Msg(Str(<<"A", "1", "2", "3", "4", "5">>), NumSec(1700000000), "F1"),
      Msg(Str(<<" ", "B", "2">>), NaNSec, "") }

PipelineFaults == {"none", "lookup", "ledger", "append"}

\* udp.on("message", ...)
Datagram(d, fault) ==
    /\ alive
    /\ Install(onMessage(Cur, d, fault, received + 1, clients, readyState, broken))
    /\ received' = received + 1
    /\ heard' = [s \in Subs |->
                    IF last'.published /\ s \in Ready(last')
                    THEN heard[s] \cup {last'.id} ELSE heard[s]]
    /\ UNCHANGED <<tz, now, clients, readyState, broken, clientVars, auxVars>>

\* setInterval(rotateIfNeeded, 30_000)
Timer(fault) ==
    /\ alive
    /\ Install(rotateIfNeeded(Cur, fault))
    /\ UNCHANGED <<tz, now, clients, readyState, broken, received, heard, clientVars, auxVars>>

\* the wall clock advances
Advance(m) ==
    /\ now' = now + m
    /\ advances' = advances + 1
    /\ UNCHANGED <<rawAddr, hexKey, response, ctlVars, connVars>>
    /\ UNCHANGED <<alive, tz, currentDate, SAVE_FILE, files, latest, unknownCache,
                   ledger, lookupSeen, totalPackets, uniqueHex, uniqueFlights,
                   topOwners, topModels, timeline, clients, readyState, broken,
                   delivered, received, lookups, lostKeys, last, rot, evicted, heard, clientVars>>

\* eventsRouter.get("/summary", ...); the reply is kept with the time of the
\* request and the number of datagrams handled before it
GetSummary ==
    /\ alive
    /\ response' = [path |-> "summary", at |-> now, served |-> received,
                    summary |-> summary(Cur), timeline |-> <<>>]
    /\ UNCHANGED <<serverVars, clientVars, advances, rawAddr, hexKey, ctlVars, connVars>>

\* eventsRouter.get("/timeline", ...)
GetTimeline ==
    /\ alive
    /\ response' = [path |-> "timeline", at |-> now, served |-> received,
                    summary |-> NoSummary,
                    timeline |-> sliceLast(timeline, TimelineWindow)]
    /\ UNCHANGED <<serverVars, clientVars, advances, rawAddr, hexKey, ctlVars, connVars>>

\* a connection handler that replays the current log to the new client
onConnectionReplay(dl, c, log) == [dl EXCEPT ![c] = @ \o log]

\* No "connection" handler is registered on wss: nothing is sent to a new client.
onConnection(dl, c, log) == dl

\* a subscriber connects: WebSocketServer adds its socket to wss.clients
SubConnect(s) ==
    /\ alive
    /\ \A i \in 1..Len(clients) : clients[i] # s
    /\ clients' = Append(clients, s)
    /\ readyState' = [readyState EXCEPT ![s] = OPEN]
    /\ broken' = [broken EXCEPT ![s] = FALSE]
    /\ delivered' = onConnection(delivered, s,
                        IF SAVE_FILE \in DOMAIN files THEN files[SAVE_FILE] ELSE <<>>)
    /\ UNCHANGED <<alive, tz, now, currentDate, SAVE_FILE, files, latest, unknownCache,
                   ledger, lookupSeen, totalPackets, uniqueHex, uniqueFlights,
                   topOwners, topModels, timeline, received, lookups, lostKeys, last, rot, evicted, heard,
                   clientVars, auxVars>>

\* the subscriber's connection dies; the server has not noticed yet
SubBreak(s) ==
    /\ alive
    /\ readyState[s] = OPEN /\ ~broken[s]
    /\ broken' = [broken EXCEPT ![s] = TRUE]
    /\ UNCHANGED <<alive, tz, now, currentDate, SAVE_FILE, files, latest, unknownCache,
                   ledger, lookupSeen, totalPackets, uniqueHex, uniqueFlights,
                   topOwners, topModels, timeline, clients, readyState, delivered,
                   received, lookups, lostKeys, last, rot, evicted, heard, clientVars, auxVars>>

\* the closing handshake starts, or the dead socket is noticed: CLOSING
SubClosing(s) ==
    /\ alive
    /\ readyState[s] = OPEN
    /\ readyState' = [readyState EXCEPT ![s] = CLOSING]
    /\ UNCHANGED <<alive, tz, now, currentDate, SAVE_FILE, files, latest, unknownCache,
                   ledger, lookupSeen, totalPackets, uniqueHex, uniqueFlights,
                   topOwners, topModels, timeline, clients, broken, delivered,
                   received, lookups, lostKeys, last, rot, evicted, heard, clientVars, auxVars>>

\* the socket closes: WebSocketServer deletes it from wss.clients
SubClosed(s) ==
    /\ alive
    /\ readyState[s] = CLOSING
    /\ clients' = SelectSeq(clients, LAMBDA c : c # s)
    /\ readyState' = [readyState EXCEPT ![s] = CLOSED]
    /\ broken' = [broken EXCEPT ![s] = FALSE]
    /\ UNCHANGED <<alive, tz, now, currentDate, SAVE_FILE, files, latest, unknownCache,
                   ledger, lookupSeen, totalPackets, uniqueHex, uniqueFlights,
                   topOwners, topModels, timeline, delivered, received, lookups,
                   lostKeys, last, rot, evicted, heard, clientVars, auxVars>>

(***************************************************************************)
(* Spec: the ingestion pipeline across a day change, with one subscriber.  *)
(***************************************************************************)
Next ==
    \/ /\ received < MaxDatagrams
       /\ \E d \in Datagrams, f \in PipelineFaults : Datagram(d, f)
    \/ /\ now + TicksPerDay <= MaxDay * TicksPerDay
       /\ Advance(TicksPerDay)
    \/ SubConnect(1)

Spec == Init /\ [][Next]_vars

(***************************************************************************)
(* FanSpec: the fan-out channel, with subscribers that come and go.        *)
(***************************************************************************)
FanNext ==
    \/ /\ received < MaxFan
       /\ \E d \in FanDatagrams : Datagram(d, "none")
    \/ \E s \in Subs : SubConnect(s)
    \/ \E s \in Subs : SubBreak(s)
    \/ \E s \in Subs : SubClosing(s)
    \/ \E s \in Subs : SubClosed(s)

FanSpec == Init /\ [][FanNext]_vars

(***************************************************************************)
(* controller.js: the supervisor of the dumpvdl2 decoder process.  Its     *)
(* request handlers and the exit listener run to completion one at a time; *)
(* a child that was sent SIGTERM exits at some later time.  The log file   *)
(* is taken to be writable.                                                *)
(***************************************************************************)
\* what a POST /start meets: the binary is missing, spawn throws, or spawn
\* returns a child
StartOutcomes == {"missing", "threw", "spawned"}

\* router.post("/start", ...)
Start(outcome) ==
    /\ \/ /\ proc # NoProc
          /\ reply' = [route |-> "start", code |-> 200, running |-> TRUE, pid |-> proc]
          /\ UNCHANGED <<proc, children, spawned>>
       \/ /\ proc = NoProc
          /\ outcome \in {"missing", "threw"}
          /\ reply' = [route |-> "start", code |-> 500, running |-> FALSE, pid |-> NoProc]
          /\ UNCHANGED <<proc, children, spawned>>
       \/ /\ proc = NoProc
          /\ outcome = "spawned"
          /\ spawned < MaxSpawn
          /\ spawned' = spawned + 1
          /\ proc' = spawned + 1
          /\ children' = children \cup {spawned + 1}
          /\ reply' = [route |-> "start", code |-> 200, running |-> FALSE,
                       pid |-> spawned + 1]
    /\ UNCHANGED <<signalled, lastExit, serverVars, clientVars, connVars,
                   advances, response, rawAddr, hexKey>>

\* router.post("/stop", ...): proc.kill("SIGTERM"); proc = null
Stop ==
    /\ signalled' = IF proc # NoProc THEN signalled \cup {proc} ELSE signalled
    /\ proc' = NoProc
    /\ reply' = [route |-> "stop", code |-> 200, running |-> FALSE, pid |-> NoProc]
    /\ UNCHANGED <<children, spawned, lastExit, serverVars, clientVars, connVars,
                   advances, response, rawAddr, hexKey>>

\* proc.on("exit", ...) of child c, which ends by itself or on the signal:
\* proc = null
ChildExit(c) ==
    /\ c \in children
    /\ children' = children \ {c}
    /\ signalled' = signalled \ {c}
    /\ lastExit' = [child |-> c, held |-> proc]
    /\ proc' = NoProc
    /\ UNCHANGED <<spawned, reply, serverVars, clientVars, connVars,
                   advances, response, rawAddr, hexKey>>

\* router.get("/status", ...)
Status ==
    /\ reply' = [route |-> "status", code |-> 200, running |-> proc # NoProc,
                 pid |-> proc]
    /\ UNCHANGED <<proc, children, spawned, signalled, lastExit, serverVars,
                   clientVars, connVars, advances, response, rawAddr, hexKey>>

(***************************************************************************)
(* CtlSpec: start, stop and status requests and the exits of the children. *)
(***************************************************************************)
CtlNext ==
    \/ \E outcome \in StartOutcomes : Start(outcome)
    \/ Stop
    \/ \E c \in 1..MaxSpawn : ChildExit(c)
    \/ Status

CtlSpec == Init /\ [][CtlNext]_vars

(***************************************************************************)
(* app.js: WebSocket connection + auto-reconnect of the browser client     *)
(***************************************************************************)
\* doubling without the ceiling
nextDelayUncapped(d) == d * 2

\* reconnectDelay = Math.min(reconnectDelay * 2, 10000)
nextDelay(d) == Min(d * 2, MaxDelay)

\* a client that gives up once the delay has reached the ceiling
setTimeoutUntilCeiling(d) == IF d >= MaxDelay THEN NoTimer ELSE d

\* reconnectTimer = setTimeout(connectWS, reconnectDelay)
setTimeout(d) == d

\* function connectWS(): ws = new WebSocket(...)
connectWS ==
    /\ ws' = "connecting"
    /\ lastEvent' = "connect"

\* connectWS() at script load
ClientInit ==
    /\ ServerInit
    /\ AuxInit
    /\ ws = "connecting"
    /\ reconnectDelay = InitialDelay
    /\ reconnectTimer = NoTimer
    /\ tableData = 0
    /\ packetCount = 0
    /\ attempts = 0
    /\ lastEvent = "connect"
    /\ lastDelay = NoTimer

\* ws.onopen
OnOpen ==
    /\ ws = "connecting"
    /\ ws' = "open"
    /\ reconnectDelay' = InitialDelay
    /\ attempts' = 0
    /\ lastEvent' = "open"
    /\ UNCHANGED <<reconnectTimer, tableData, packetCount, lastDelay, serverVars, auxVars>>

\* ws.onmessage = handlePacket
OnMessage ==
    /\ ws = "open"
    /\ packetCount < MaxRx
    /\ tableData' = IF tableData + 1 > TableMax THEN tableData ELSE tableData + 1
    /\ packetCount' = packetCount + 1
    /\ lastEvent' = "message"
    /\ UNCHANGED <<ws, reconnectDelay, reconnectTimer, attempts, lastDelay, serverVars, auxVars>>

\* ws.onerror: ws.close()
OnError ==
    /\ ws \in {"connecting", "open"}
    /\ ws' = "closing"
    /\ lastEvent' = "error"
    /\ UNCHANGED <<reconnectDelay, reconnectTimer, tableData, packetCount,
                   attempts, lastDelay, serverVars, auxVars>>

\* ws.onclose
OnClose ==
    /\ ws \in {"open", "closing"}
    /\ ws' = "closed"
    /\ reconnectTimer' = setTimeout(reconnectDelay)
    /\ lastDelay' = reconnectDelay
    /\ reconnectDelay' = nextDelay(reconnectDelay)
    /\ attempts' = Min(attempts + 1, MaxAttempts)
    /\ lastEvent' = "close"
    /\ UNCHANGED <<tableData, packetCount, serverVars, auxVars>>

\* the reconnect timer fires: connectWS()
TimerFires ==
    /\ reconnectTimer # NoTimer
    /\ reconnectTimer' = NoTimer
    /\ connectWS
    /\ UNCHANGED <<reconnectDelay, tableData, packetCount, attempts, lastDelay,
                   serverVars, auxVars>>

ClientNext == OnOpen \/ OnMessage \/ OnError \/ OnClose \/ TimerFires

ClientSpec == ClientInit /\ [][ClientNext]_vars

\* The browser delivers the close event of a closing socket, and a pending
\* timer fires.
ClientLive == ClientSpec /\ WF_vars(OnClose) /\ WF_vars(TimerFires)

(***************************************************************************)
(* app.js: the sockets and timeouts of the client, one by one.  Every      *)
(* socket made by connectWS keeps its own handlers; the browser delivers   *)
(* to a socket at most one open event, and after an error exactly one      *)
(* close event.                                                            *)
(***************************************************************************)
\* the sockets that are connecting or open
Live(socks) == {s \in DOMAIN socks : socks[s] \in {"connecting", "open"}}

\* WebSocket.close(): a connecting or open socket starts closing
close(socks, s) ==
    IF s \in Live(socks) THEN [socks EXCEPT ![s] = "closing"] ELSE socks

\* clearTimeout(reconnectTimer)
clearTimeout(ts, handle) == ts \ {handle}

\* setInterval: the timeout stays pending after it has fired
setIntervalFired(ts, t) == ts

\* setTimeout is one-shot: a timeout that fires is no longer pending
fired(ts, t) == ts \ {t}

\* connectWS() at script load
ConnStart ==
    /\ sockets = <<"connecting">>
    /\ current = 1
    /\ timers = {}
    /\ timerHandle = NoTimer
    /\ timerCount = 0

ConnInit == ServerInit /\ ClientIdle /\ QueryIdle /\ CtlIdle /\ ConnStart

\* ws.onopen of socket s
SocketOpen(s) ==
    /\ s \in DOMAIN sockets
    /\ sockets[s] = "connecting"
    /\ sockets' = [sockets EXCEPT ![s] = "open"]
    /\ reconnectDelay' = InitialDelay
    /\ UNCHANGED <<current, timers, timerHandle, timerCount>>
    /\ UNCHANGED <<ws, reconnectTimer, tableData, packetCount, attempts, lastEvent,
                   lastDelay, serverVars, ctlVars, advances, response, rawAddr, hexKey>>

\* the connection of socket s fails; ws.onerror of socket s: ws.close() on
\* the socket the variable ws holds at that time
SocketError(s) ==
    /\ s \in Live(sockets)
    /\ sockets' = close([sockets EXCEPT ![s] = "closing"], current)
    /\ UNCHANGED <<current, timers, timerHandle, timerCount, reconnectDelay>>
    /\ UNCHANGED <<ws, reconnectTimer, tableData, packetCount, attempts, lastEvent,
                   lastDelay, serverVars, ctlVars, advances, response, rawAddr, hexKey>>

\* ws.onclose of socket s, closed by the server or after an error
SocketClose(s) ==
    /\ s \in DOMAIN sockets
    /\ sockets[s] \in {"open", "closing"}
    /\ sockets' = [sockets EXCEPT ![s] = "closed"]
    /\ timers' = clearTimeout(timers, timerHandle) \cup {timerCount + 1}
    /\ timerHandle' = timerCount + 1
    /\ timerCount' = timerCount + 1
    /\ reconnectDelay' = nextDelay(reconnectDelay)
    /\ UNCHANGED current
    /\ UNCHANGED <<ws, reconnectTimer, tableData, packetCount, attempts, lastEvent,
                   lastDelay, serverVars, ctlVars, advances, response, rawAddr, hexKey>>

\* timeout t fires: connectWS(): ws = new WebSocket(...)
TimeoutFires(t) ==
    /\ t \in timers
    /\ Len(sockets) < MaxSockets
    /\ timers' = fired(timers, t)
    /\ sockets' = Append(sockets, "connecting")
    /\ current' = Len(sockets) + 1
    /\ UNCHANGED <<timerHandle, timerCount, reconnectDelay>>
    /\ UNCHANGED <<ws, reconnectTimer, tableData, packetCount, attempts, lastEvent,
                   lastDelay, serverVars, ctlVars, advances, response, rawAddr, hexKey>>

(***************************************************************************)
(* ConnSpec: the events of every socket and timeout, in any order.         *)
(***************************************************************************)
ConnNext ==
    \/ \E s \in 1..MaxSockets : SocketOpen(s)
    \/ \E s \in 1..MaxSockets : SocketError(s)
    \/ \E s \in 1..MaxSockets : SocketClose(s)
    \/ \E t \in 1..MaxSockets : TimeoutFires(t)

ConnSpec == ConnInit /\ [][ConnNext]_vars

(***************************************************************************)
(* RotSpec: rotation, alias and pruning.  The process starts at local      *)
(* midnight of day RotStartDay over the log files of the eight days        *)
(* before and the alias of the day before, in one of three time zones; the *)
(* clock steps to the next local midnight, or from a midnight to the first *)
(* tick of the rotation timer after it.                                    *)
(***************************************************************************)
\* UTC-5, UTC, UTC+2
Zones == {0 - 600, 0, 240}

OldFiles == [d \in (RotStartDay - 8)..(RotStartDay - 1) |-> <<>>]

RotInit ==
    /\ \E z \in Zones :
          ServerStart(z, RotStartDay * TicksPerDay - z, OldFiles, RotStartDay - 1)
    /\ ClientIdle
    /\ AuxInit

RotDatagrams ==
    { Msg(Str(<<"A", "1", "2", "3", "4", "5">>), NumSec(1700000000), "F1") }

\* the faults of the handler's own rotation check and of its append
RotHandlerFaults == {"none", "create", "symlink", "append"}

RotFaults == {"none", "create", "unlink", "symlink", "readdir"}

\* ticks since the latest local midnight
SinceMidnight == (now + tz) % TicksPerDay

RotNext ==
    \/ /\ received < MaxRotMsgs
       /\ \E d \in RotDatagrams, f \in RotHandlerFaults : Datagram(d, f)
    \/ \E f \in RotFaults : Timer(f)
    \/ /\ SinceMidnight < TimerPeriod
       /\ Advance(TimerPeriod)
    \/ /\ dateStamp(now) < RotStartDay + MaxRotDays
       /\ Advance(TicksPerDay - SinceMidnight)

RotSpec == RotInit /\ [][RotNext]_vars

(***************************************************************************)
(* TopSpec: the owner table and the summary query.  The aircraft of the    *)
(* fleet appear in the order of the table; each message comes from the     *)
(* newest aircraft heard so far or from the next one.                      *)
(***************************************************************************)
TopDatagram(i) == Msg(Str(FleetKey(i)), AbsentSec, "")

TopNext ==
    \/ /\ received < MaxTopMsgs
       /\ \E i \in 1..FleetSize :
             /\ i \in {Cardinality(uniqueHex), Cardinality(uniqueHex) + 1}
             /\ Datagram(TopDatagram(i), "none")
    \/ GetSummary

TopSpec == Init /\ [][TopNext]_vars

(***************************************************************************)
(* QuerySpec: the statistics API between messages and clock steps of one   *)
(* minute or of just over the timeline window.                             *)
(***************************************************************************)
QueryDatagrams ==
    { Msg(Str(<<"A", "1", "2", "3", "4", "5">>), NumSec(1700000000), "F1"),
      Msg(Str(<<"g", "0">>), AbsentSec, "") }

QueryNext ==
    \/ /\ received < MaxQueryMsgs
       /\ \E d \in QueryDatagrams : Datagram(d, "none")
    \/ /\ advances < MaxQuerySteps
       /\ \E m \in {1, TimelineWindow + 1} : Advance(m * TicksPerMinute)
    \/ GetSummary
    \/ GetTimeline

QuerySpec == Init /\ [][QueryNext]_vars

(***************************************************************************)
(* StatsSpec: one message in every minute, for longer than the timeline    *)
(* holds.  The specification starts where the server is after WarmMinutes  *)
(* such minutes, each with a message of a known aircraft; the later        *)
(* messages are of that aircraft or of an unknown one.                     *)
(***************************************************************************)
StatDatagram == Msg(Str(<<"A", "1", "2", "3", "4", "5">>), AbsentSec, "")

StatDatagrams == {StatDatagram, Msg(Str(<<" ", "B", "2">>), AbsentSec, "")}

\* the server after k minutes, each with one message: the handler applied
\* to the datagrams first..k in turn, the clock one minute on each time
RECURSIVE Warm(_, _, _)
Warm(st, first, k) ==
    IF k < first THEN st
    ELSE IF k = first
    THEN onMessage([st EXCEPT !.now = (k - 1) * TicksPerMinute], StatDatagram,
                   "none", k, <<>>, [s \in Subs |-> CLOSED],
                   [s \in Subs |-> FALSE])
    ELSE LET mid == (first + k) \div 2
             half == Warm(st, first, mid)
         IN  IF half.totalPackets = mid THEN Warm(half, mid + 1, k) ELSE half

StatsInit ==
    /\ tz = 0
    /\ \E warm \in {Warm(Booted(0, [d \in {} |-> <<>>], NoLink), 1, WarmMinutes)} :
          Holds(warm)
    /\ Unconnected
    /\ received = WarmMinutes
    /\ ClientIdle
    /\ advances = WarmMinutes - 1
    /\ response = NoResponse
    /\ rawAddr = Absent
    /\ hexKey = normalizeHex(Absent)
    /\ CtlIdle
    /\ ConnIdle

BucketOpen == timeline # <<>> /\ timeline[Len(timeline)].time = minuteKey(now)

StatsNext ==
    \/ /\ received < MaxStatMsgs
       /\ ~BucketOpen
       /\ \E d \in StatDatagrams : Datagram(d, "none")
    \/ /\ received < MaxStatMsgs
       /\ BucketOpen
       /\ Advance(TicksPerMinute)

StatsSpec == StatsInit /\ [][StatsNext]_vars

(***************************************************************************)
(* NormSpec: normalizeHex applied to address values: absent, a number, or  *)
(* a string typed one character at a time.                                 *)
(***************************************************************************)
\* a digit, an upper-case hex letter, a letter that is not hex, white space
NormAlphabet == {"1", "F", "g", " "}
NormNumbers == {0, 255, 12345678}

NormType(c) ==
    /\ rawAddr.kind # "num"
    /\ Len(rawAddr.s) < MaxLen
    /\ rawAddr' = Str(Append(rawAddr.s, c))
    /\ hexKey' = normalizeHex(rawAddr')
    /\ UNCHANGED <<advances, response, serverVars, clientVars, ctlVars, connVars>>

NormNumber(n) ==
    /\ rawAddr = Absent
    /\ rawAddr' = Num(n)
    /\ hexKey' = normalizeHex(rawAddr')
    /\ UNCHANGED <<advances, response, serverVars, clientVars, ctlVars, connVars>>

NormNext ==
    \/ \E c \in NormAlphabet : NormType(c)
    \/ \E n \in NormNumbers : NormNumber(n)

NormSpec == Init /\ [][NormNext]_vars

(***************************************************************************)
(* Properties of the ingestion loop                                        *)
(***************************************************************************)
RECURSIVE Count(_, _)
Count(seq, x) ==
    IF seq = <<>> THEN 0
    ELSE (IF Head(seq) = x THEN 1 ELSE 0) + Count(Tail(seq), x)

Ids(seq) == [i \in 1..Len(seq) |-> seq[i].id]

Increasing(seq) == \A i, j \in 1..Len(seq) : i < j => seq[i] < seq[j]

AllSteps == <<"rotate", "normalize", "enrich", "append", "stats", "publish">>

\* C1: after handling any datagram, whatever the outcome of each step, no
\* fault has escaped the handler: the process is still running and can
\* handle the next datagram.
C1_NoFaultEscapes == received > 0 => alive

\* C2: handling a datagram whose payload fails to parse appends no line to
\* any log file, performs no lookup, writes nothing to the unknown-key set
\* or ledger, leaves every statistic unchanged and sends nothing to any
\* subscriber.
C2_MalformedDropped ==
    [][(received' = received + 1 /\ ~last'.ok) =>
          /\ \A f \in DOMAIN files' :
                files'[f] = (IF f \in DOMAIN files THEN files[f] ELSE <<>>)
          /\ UNCHANGED <<lookups, unknownCache, ledger, lostKeys>>
          /\ UNCHANGED <<totalPackets, uniqueHex, uniqueFlights, topOwners,
                         topModels, timeline>>
          /\ UNCHANGED delivered
          /\ ~last'.published]_vars

\* C2 witness: a malformed datagram was handled on a new day, after a
\* message had been recorded and while a subscriber was connected.
C2_Witness ==
    /\ received > 1 /\ ~last.ok
    /\ totalPackets > 0
    /\ clients # <<>>
    /\ currentDate # dateStamp(0)

\* C3: for every successfully parsed datagram each step happens exactly
\* once, in the order rotation check, normalize, enrich, append, record
\* statistics, publish; log lines and publications are in arrival order.
C3_StepsInOrder ==
    /\ (received > 0 /\ last.parsed) => last.steps = AllSteps
    /\ \A f \in DOMAIN files : Increasing(Ids(files[f]))
    /\ \A s \in Subs : Increasing(Ids(delivered[s]))

(***************************************************************************)
(* Properties of the fan-out channel                                       *)
(***************************************************************************)
Copies(s, id) == Count(Ids(delivered[s]), id)

\* C4: of every published message, each subscriber that was connected and
\* ready at the publish has received exactly one copy, and each subscriber
\* that was not ready has received none.
C4_OneCopyToReady ==
    last.published =>
        /\ \A s \in Ready(last) : Copies(s, last.id) = 1
        /\ \A s \in Subs \ last.open : Copies(s, last.id) = 0

\* C4 witness: a message was published while one subscriber was ready and
\* another was connected but closing.
C4_Witness ==
    /\ last.published
    /\ Ready(last) # {}
    /\ last.members \ last.open # {}

\* C5: when a subscriber's connection is broken while a message is
\* published, every other ready subscriber still receives the message, the
\* message is still recorded, and the ingestion loop keeps running.
C5_BrokenSubscriberIsolated ==
    (last.published /\ last.members \cap last.dead # {}) =>
        /\ alive
        /\ \A s \in Ready(last) :
              /\ delivered[s] # <<>>
              /\ delivered[s][Len(delivered[s])].id = last.id
        /\ \A s \in last.members \cap last.dead :
              \A i \in 1..Len(delivered[s]) : delivered[s][i].id # last.id
        /\ totalPackets >= 1

\* C5 witness: a message was published to a ready subscriber that comes
\* after a broken one in the client set.
C5_Witness ==
    /\ last.published
    /\ last.members \cap last.open \cap last.dead # {}
    /\ Ready(last) # {}
    /\ alive

\* C6: every message a subscriber has received was published while that
\* subscriber was connected; nothing is replayed when it reconnects.
C6_NoReplay ==
    \A s \in Subs : \A i \in 1..Len(delivered[s]) : delivered[s][i].id \in heard[s]

\* C6 witness: a subscriber that received the first message, was away for
\* the second one, and is connected again.
C6_Witness ==
    \E s \in Subs :
        /\ Ids(delivered[s]) = <<1>>
        /\ last.id = 2 /\ last.published /\ s \notin last.members
        /\ readyState[s] = OPEN

(***************************************************************************)
(* Properties of the client's reconnect protocol                           *)
(***************************************************************************)
RECURSIVE Pow2(_)
Pow2(n) == IF n <= 0 THEN 1 ELSE 2 * Pow2(n - 1)

\* the delay, in units of InitialDelay, before the k-th consecutive reconnect
BackoffUnits(k) == Min(Pow2(k - 1), MaxDelay \div InitialDelay)

\* C7: the delay scheduled before the k-th consecutive reconnect attempt
\* since the last successful connection is min(2^(k-1), 10) time-units; it
\* never exceeds 10; a successful connection resets the delay to 1.
C7_Backoff ==
    /\ attempts >= 1 => lastDelay = InitialDelay * BackoffUnits(attempts)
    /\ lastDelay <= MaxDelay
    /\ reconnectTimer # NoTimer => reconnectTimer = lastDelay
    /\ lastEvent = "open" => reconnectDelay = InitialDelay

\* C7 witness: the fifth consecutive reconnect is scheduled, at the ceiling.
C7_Witness ==
    /\ attempts = 5
    /\ lastEvent = "close"
    /\ reconnectTimer = MaxDelay

\* C8: every error or close event on the connection is eventually followed
\* by a new connection attempt, however many attempts have failed before.
C8_AlwaysReconnects ==
    (lastEvent \in {"error", "close"}) ~> (lastEvent = "connect")

\* C8 witness: a connection attempt made after the backoff has reached its
\* ceiling.
C8_Witness ==
    /\ lastEvent = "connect"
    /\ attempts = MaxAttempts
    /\ reconnectDelay = MaxDelay

(***************************************************************************)
(* Properties of the reference lookup                                      *)
(***************************************************************************)
LedgerDays == DOMAIN ledger
LedgerKeys(d) == [i \in 1..Len(ledger[d]) |-> ledger[d][i].hex]

RECURSIVE SumOver(_, _)
SumOver(days, k) ==
    IF days = {} THEN 0
    ELSE LET d == CHOOSE x \in days : TRUE
         IN  Count(LedgerKeys(d), k) + SumOver(days \ {d}, k)

\* how often key k occurs in the ledger of day d
InLedger(d, k) == IF d \in LedgerDays THEN Count(LedgerKeys(d), k) ELSE 0

SeenKeys == {lookups[i].hex : i \in 1..Len(lookups)}
SeenOn(k) == {lookups[i].day : i \in {j \in 1..Len(lookups) : lookups[j].hex = k}}
\* the days on which k was looked up and found absent with no fault in the
\* lookup or in the ledger append
MissedOn(k) ==
    {lookups[i].day : i \in {j \in 1..Len(lookups) :
        lookups[j].hex = k /\ lookups[j].clean}}
AllLogged ==
    UNION {{files[f][i] : i \in 1..Len(files[f])} : f \in DOMAIN files} \cup
    UNION {{delivered[s][i] : i \in 1..Len(delivered[s])} : s \in Subs}

EnrichmentEmpty ==
    \A m \in AllLogged :
        normalizeHex(m.addr) \notin DOMAIN aircraft => m.db = EmptyObject

\* C9 as stated: a key absent from the reference table gets an empty
\* enrichment and appears exactly once in the ledger of each day on which
\* it is seen (looked up and found absent, the append not failing), also
\* when it recurs after a day change or after a failed ledger append.
C9_OncePerDay ==
    /\ EnrichmentEmpty
    /\ \A k \in SeenKeys \ (DOMAIN aircraft \cup {ZeroKey}) :
          \A d \in MissedOn(k) : InLedger(d, k) = 1

\* C9 as amended: a key absent from the reference table gets an empty
\* enrichment and is written to the ledger once per process lifetime: one
\* line, in the ledger of the day of the first miss, when that append
\* succeeds, and no line at all when it fails; no recurrence adds a line.
C9_OncePerRuntime ==
    /\ EnrichmentEmpty
    /\ \A d \in LedgerDays : \A i \in 1..Len(ledger[d]) :
          /\ ledger[d][i].hex \in unknownCache \ DOMAIN aircraft
          /\ dateStamp(ledger[d][i].time) = d
    /\ \A k \in unknownCache :
          SumOver(LedgerDays, k) = (IF k \in lostKeys THEN 0 ELSE 1)
    /\ lostKeys \subseteq unknownCache

\* C9 witness: an absent key was logged on one day and recurred on the next.
C9_Witness ==
    \E k \in unknownCache \ lostKeys :
        /\ Cardinality(SeenOn(k)) = 2
        /\ SumOver(LedgerDays, k) = 1
        /\ last.hex = k /\ last.published /\ last.db = EmptyObject

\* C10: the all-zero key is "no key": no lookup is attempted for it, and it
\* is never added to the unknown-key set, the ledger or the distinct
\* aircraft set.
C10_ZeroKeySkipped ==
    /\ ZeroKey \notin SeenKeys
    /\ ZeroKey \notin unknownCache
    /\ \A d \in LedgerDays : InLedger(d, ZeroKey) = 0
    /\ ZeroKey \notin uniqueHex

(***************************************************************************)
(* Properties of address normalization                                     *)
(***************************************************************************)
Max(a, b) == IF a > b THEN a ELSE b

\* the hex characters of the input, in order, as they were written
HexCharsOf(raw) == SelectSeq(toString(raw), LAMBDA c : c \in LowerHex \cup UpperHex)

LowerOf == [u \in UpperHex |->
               CASE u = "A" -> "a" [] u = "B" -> "b" [] u = "C" -> "c"
                 [] u = "D" -> "d" [] u = "E" -> "e" [] u = "F" -> "f"]

\* k is h in lower case behind a (possibly empty) run of "0"
ZeroPaddedLower(k, h) ==
    LET pad == Len(k) - Len(h)
    IN  /\ pad >= 0
        /\ \A i \in 1..pad : k[i] = "0"
        /\ \A i \in 1..Len(h) :
              k[pad + i] = (IF h[i] \in UpperHex THEN LowerOf[h[i]] ELSE h[i])

LastOf(seq) == seq[Len(seq)]

\* C12: the first rotation check after a change of the local date (a timer
\* tick or the start of a datagram handler) makes the new day's file the
\* current one and creates it when the file system lets it; a message
\* handled after the date change is appended to the file of the new day and
\* no other file gets a line; the current path always names the file of the
\* stored day stamp.
C12_NewDayFile ==
    /\ [](SAVE_FILE = logPathFor(currentDate))
    /\ [][(received' = received + 1 \/ rot'.n # rot.n) =>
             /\ currentDate' = dateStamp(now)
             /\ (rot'.n # rot.n /\ rot'.created) =>
                   logPathFor(dateStamp(now)) \in rot'.kept]_vars
    /\ [][(received' = received + 1 /\ last'.ok /\ last'.dated
              /\ ~last'.appendFailed) =>
             LET f == logPathFor(dateStamp(now))
             IN  /\ f \in DOMAIN files'
                 /\ files'[f] # <<>>
                 /\ LastOf(files'[f]).id = last'.id
                 /\ \A g \in DOMAIN files' \ {f} :
                       g \in DOMAIN files /\ files'[g] = files[g]]_vars

\* C12 witness: away from UTC, a message was logged on one local day and
\* the next message on the following day, each in the file of its day.
C12_Witness ==
    /\ tz # 0
    /\ currentDate - 1 \in DOMAIN files /\ files[currentDate - 1] # <<>>
    /\ SAVE_FILE \in DOMAIN files /\ files[SAVE_FILE] # <<>>
    /\ LastOf(files[SAVE_FILE]).id = last.id
    /\ rot.n > 0

\* C13: a rotation that prunes deletes every dated log file whose date is
\* more than seven days before the new current local day, and keeps every
\* file whose date is inside the seven-day window, the current day's file
\* included.
C13_PruneWindow ==
    (rot.n > 0 /\ rot.pruned) =>
        LET today == dateStamp(rot.at)
        IN  \A d \in rot.had :
                /\ d < today - KEEP_DAYS => d \notin rot.kept
                /\ d >= today - KEEP_DAYS => d \in rot.kept

\* C14: once the process is up and handling messages, the alias resolves to
\* the current day's log file, before the first date change as well as
\* after it.
C14_AliasCurrent == (alive /\ received > 0) => latest = SAVE_FILE

\* C19: a rotation check made while the stored day stamp is already today's
\* (from the timer or from the handler) leaves the day stamp, the current
\* path, the alias and the set of log files as they were, also when a step
\* of the rotation had failed; a rotation happens only on a check that
\* finds the date changed, and then once.
C19_Idempotent ==
    /\ [][(now' = now /\ dateStamp(now) = currentDate) =>
             /\ UNCHANGED <<currentDate, SAVE_FILE, latest, rot>>
             /\ received' = received => UNCHANGED files
             /\ DOMAIN files' \ {SAVE_FILE} = DOMAIN files \ {SAVE_FILE}]_vars
    /\ [][rot'.n # rot.n =>
             /\ rot'.n = rot.n + 1
             /\ dateStamp(now) # currentDate
             /\ currentDate' = dateStamp(now)]_vars

\* C19 witness: the alias could not be repointed by a rotation, and two
\* messages have been handled since without another rotation.
C19_Witness ==
    /\ rot.n = 1 /\ ~rot.linked /\ latest # SAVE_FILE
    /\ SAVE_FILE \in DOMAIN files /\ Len(files[SAVE_FILE]) >= 2
    /\ dateStamp(now) = currentDate

(***************************************************************************)
(* Properties of the statistics and of the query surface                   *)
(***************************************************************************)
\* C15: the timeline never holds more than 1440 buckets; a message in the
\* minute of the newest bucket only raises that bucket's count; a message
\* in another minute appends a bucket with count 1, and when that would
\* make 1441 buckets the oldest one, and only it, is dropped, the others
\* keeping their order.
C15_TimelineFifo ==
    /\ [](Len(timeline) <= TimelineMax)
    /\ [][timeline' # timeline =>
            LET n == Len(timeline)
                fresh == [time |-> minuteKey(now), count |-> 1]
            IN  IF n > 0 /\ timeline[n].time = minuteKey(now)
                THEN timeline' = [timeline EXCEPT ![n].count = @ + 1]
                ELSE IF n < TimelineMax
                THEN timeline' = timeline \o <<fresh>>
                ELSE timeline' = SubSeq(timeline, 2, n) \o <<fresh>>]_vars

\* C15 witness: the timeline is full and its first bucket is no longer the
\* minute of the first message.
C15_Witness ==
    /\ Len(timeline) = TimelineMax
    /\ timeline[1].time > minuteKey(0)
    /\ totalPackets > TimelineMax

\* the times of a sequence of buckets increase
Chronological(tl) == \A i, j \in 1..Len(tl) : i < j => tl[i].time < tl[j].time

\* C16: a reply to the timeline query is in chronological order, has at
\* most 120 buckets, and none of them is of a minute more than 120 minutes
\* before the query.
C16_LastTwoHours ==
    response.path = "timeline" =>
        /\ Chronological(response.timeline)
        /\ Len(response.timeline) <= TimelineWindow
        /\ \A i \in 1..Len(response.timeline) :
              minuteKey(response.at) - response.timeline[i].time <= TimelineWindow

\* the messages recorded among the first n datagrams
RecordedUpTo(n) == {m \in AllLogged : m.id <= n}

\* the address keys that are present (not the all-zero key) in those messages
PresentKeysUpTo(n) == {normalizeHex(m.addr) : m \in RecordedUpTo(n)} \ {ZeroKey}

\* C17: a reply to the summary query reports as uniqueAircraft the number
\* of distinct present address keys of the messages recorded before it: N
\* after N messages with N distinct keys, unchanged by a repeated key.
C17_UniqueAircraft ==
    response.path = "summary" =>
        response.summary.uniqueAircraft = Cardinality(PresentKeysUpTo(response.served))

\* the owner value of a message's enrichment, or "Unknown" when it has none
OwnerLabel(m) ==
    IF "ownop" \in DOMAIN m.db /\ m.db.ownop # "" THEN m.db.ownop ELSE "Unknown"

Tally(n, owner) == Cardinality({m \in RecordedUpTo(n) : OwnerLabel(m) = owner})

OwnerLabels(n) == {OwnerLabel(m) : m \in RecordedUpTo(n)}

\* C18: the owner table counts every recorded message under its owner, and
\* under "Unknown" when its enrichment has no owner; topOwners of a summary
\* reply lists each owner at most once, with the number of messages
\* recorded for it, in non-increasing order of count, at most 10 of them,
\* and no owner left out has more messages than one listed.
C18_TopOwners ==
    /\ \A i \in 1..Len(topOwners) :
          topOwners[i].count = Tally(received, topOwners[i].key)
    /\ \A o \in OwnerLabels(received) : \E i \in 1..Len(topOwners) : topOwners[i].key = o
    /\ response.path = "summary" =>
          LET top == response.summary.topOwners
              n == response.served
          IN  /\ Len(top) = Min(TopN, Cardinality(OwnerLabels(n)))
              /\ \A i, j \in 1..Len(top) : i < j =>
                    top[i].count >= top[j].count /\ top[i].key # top[j].key
              /\ \A i \in 1..Len(top) :
                    /\ top[i].count = Tally(n, top[i].key)
                    /\ top[i].count > 0
              /\ \A o \in OwnerLabels(n) :
                    (\A i \in 1..Len(top) : top[i].key # o) =>
                        \A i \in 1..Len(top) : Tally(n, o) <= top[i].count

\* C18 witness: a summary of more than ten owners, "Unknown" among the ten
\* listed with several messages, the counts not all equal.
C18_Witness ==
    /\ response.path = "summary"
    /\ Cardinality(OwnerLabels(response.served)) > TopN
    /\ Len(response.summary.topOwners) = TopN
    /\ \E i \in 1..TopN :
          /\ response.summary.topOwners[i].key = "Unknown"
          /\ response.summary.topOwners[i].count >= 2
    /\ response.summary.topOwners[1].count > response.summary.topOwners[TopN].count

(***************************************************************************)
(* Properties of fault handling                                            *)
(***************************************************************************)
\* the entry of owner o in the owner table tb, or 0
CountOf(tb, o) ==
    IF \E i \in 1..Len(tb) : tb[i].key = o
    THEN (CHOOSE e \in {tb[i] : i \in 1..Len(tb)} : e.key = o).count
    ELSE 0

Lines(fs) == UNION {{fs[f][i] : i \in 1..Len(fs[f])} : f \in DOMAIN fs}

\* C20: a failed lookup or a failed log append skips that step only.  When
\* the lookup of a message fails, the message goes on with the empty
\* enrichment of a key that was not found: it is logged, counted (under
\* "Unknown") and published with it.  When the append fails, no line is
\* written, and the message is still counted and still sent to every
\* ready subscriber.  The process keeps running in both cases.
C20_FaultSkipsOneStep ==
    [][(received' = received + 1 /\ last'.ok /\ last'.dated
           /\ (last'.lookupFailed \/ last'.appendFailed)) =>
          /\ alive'
          /\ last'.steps = AllSteps
          /\ totalPackets' = totalPackets + 1
          /\ Len(timeline') > 0
          /\ timeline'[Len(timeline')].time = minuteKey(now)
          /\ \A s \in Subs :
                IF s \in Ready(last')
                THEN /\ Len(delivered'[s]) = Len(delivered[s]) + 1
                     /\ LastOf(delivered'[s]).id = last'.id
                     /\ last'.lookupFailed => LastOf(delivered'[s]).db = EmptyObject
                ELSE delivered'[s] = delivered[s]
          /\ last'.lookupFailed =>
                /\ last'.db = EmptyObject
                /\ CountOf(topOwners', "Unknown") = CountOf(topOwners, "Unknown") + 1
                /\ \E m \in Lines(files') \ Lines(files) :
                      m.id = last'.id /\ m.db = EmptyObject
          /\ last'.appendFailed =>
                /\ Lines(files') = Lines(files)
                /\ \A s \in Ready(last') :
                      LastOf(delivered'[s]).db =
                         (IF last'.hex \in DOMAIN aircraft
                          THEN enrichedFrom(aircraft[last'.hex]) ELSE EmptyObject)]_vars

\* C20 witness: a subscriber has received two messages of a known aircraft:
\* the lookup failed for the first, which carries an empty enrichment, and
\* the append failed for the second, which is in no log file.
C20_Witness ==
    /\ alive
    /\ last.appendFailed /\ last.published /\ 1 \in Ready(last)
    /\ Len(delivered[1]) = 2
    /\ normalizeHex(delivered[1][1].addr) \in DOMAIN aircraft
    /\ delivered[1][1].db = EmptyObject
    /\ delivered[1][2].db # EmptyObject
    /\ \A m \in Lines(files) : m.id # last.id
    /\ totalPackets = 2

\* the sum of the counts of the entries lo..hi of a table or of a timeline
RECURSIVE CountsIn(_, _, _)
CountsIn(seq, lo, hi) ==
    IF lo > hi THEN 0
    ELSE IF lo = hi THEN seq[lo].count
    ELSE LET mid == (lo + hi) \div 2
         IN  CountsIn(seq, lo, mid) + CountsIn(seq, mid + 1, hi)

SumCounts(seq) == CountsIn(seq, 1, Len(seq))

\* C21: whenever a summary or timeline query is answered, between or after
\* any datagrams, the reply is the state after a whole number of recorded
\* messages: every bucket returned has count >= 1; a timeline reply that
\* was not cut by the window adds up to the messages recorded before the
\* query; a summary reply reports that number as totalPackets, and its
\* owner and model tables, when not cut to the first ten, add up to it.
C21_WholeMessages ==
    LET n == Cardinality(RecordedUpTo(response.served))
    IN  /\ response.path = "timeline" =>
              /\ \A i \in 1..Len(response.timeline) : response.timeline[i].count >= 1
              /\ Len(response.timeline) < TimelineWindow =>
                    SumCounts(response.timeline) = n
        /\ response.path = "summary" =>
              /\ response.summary.totalPackets = n
              /\ Len(response.summary.topOwners) < TopN =>
                    SumCounts(response.summary.topOwners) = n
              /\ Len(response.summary.topModels) < TopN =>
                    SumCounts(response.summary.topModels) = n

\* a timeline query answered between two messages, the second of them in a
\* later minute
C21_Witness ==
    /\ response.path = "timeline"
    /\ response.served = 1
    /\ received = 2
    /\ Len(response.timeline) = 1
    /\ Len(timeline) = 2

\* C22: in the supervisor, under any interleaving of /start and /stop
\* requests and child exits, at most one spawned decoder process is alive,
\* and an exit event never clears the handle to a child other than the one
\* that exited.
C22_SingleChild ==
    /\ Cardinality(children) <= 1
    /\ lastExit.held \in {NoProc, lastExit.child}

\* C23: on the client, under any interleaving of open, error, close and
\* timer events, the connections that are connecting or open and the
\* pending reconnect timers number at most one together: no second
\* concurrent connection, no two timers pending.
C23_OneAtATime == Cardinality(Live(sockets)) + Cardinality(timers) <= 1

\* the second reconnect has opened its connection: two sockets and two
\* timeouts have come and gone
C23_Witness ==
    /\ Len(sockets) = 3
    /\ sockets[3] = "open"
    /\ timerCount = 2
    /\ timers = {}

\* C24: after any sequence of datagrams the total message count equals the
\* sum of the counts of the owner table and the sum of the counts of the
\* model table; and while no minute bucket has been evicted it equals the
\* sum of the counts of the minute buckets.
C24_TotalsAgree ==
    /\ totalPackets = SumCounts(topOwners)
    /\ totalPackets = SumCounts(topModels)
    /\ evicted = 0 => totalPackets = SumCounts(timeline)

\* the timeline is full and nothing has been evicted yet, after messages
\* with and without an owner
C24_Witness ==
    /\ evicted = 0
    /\ Len(timeline) = TimelineMax
    /\ totalPackets = TimelineMax
    /\ Len(topOwners) = 2
    /\ last.id = TimelineMax
====
